---- MODULE Spec2Model ----
(***************************************************************************)
(* trpc2openapi: the translation of a tRPC router record into an OpenAPI   *)
(* 3.1 document (packages/trpc2openapi/src/index.ts).                      *)
(*                                                                         *)
(* JavaScript values are modelled as follows.                              *)
(*  - An object is a TLA+ record/function over its own property names; a   *)
(*    property that is undefined is a name outside the DOMAIN.             *)
(*  - A RouterRecord, whose entry order Object.entries observes, is        *)
(*    [entries |-> <<name, value>> pairs in Object.entries order].         *)
(*  - A procedure is [_def |-> [procedure |-> TRUE, type, inputs, output]].*)
(*  - A string is a TLA+ string; template literals are \o.                 *)
(***************************************************************************)
EXTENDS Integers, Sequences, FiniteSets, TLC

\* ------------------------------------------------------------------ bounds
\* The largest number of entries (procedures and nested records together)
\* of a router record handed to trpc2OpenApi.
MaxNodes == 3

\* The same, for the router that calls running at the same time share.
MaxSharedNodes == 2

\* ------------------------------------------------------------ input values
\* The keys of router records. None is an integer index, so Object.entries
\* lists them in insertion order. _def is the one key isProcedure reads.
Names == {"test", "_def"}

BasePaths == {"", "api", "/trpc"}

ApiTitles == {"Test API", "My API"}

ApiVersions == {"1.0.0"}

\* Zod types, by their definition record (z.string(), z.object({id: z.string()})).
ZString == [def |-> [type |-> "string"]]

ZObject == [def |-> [type |-> "object", shape |-> [id |-> ZString]]]

JsonSchemaDraft == "https://json-schema.org/draft/2020-12/schema"

\* The keys of an object as a list.
KeysOf(obj) ==
  CHOOSE s \in [1..Cardinality(DOMAIN obj) -> DOMAIN obj] :
    {s[i] : i \in DOMAIN s} = DOMAIN obj

\* The schema fragment of a zod type, without the top-level $schema marker.
RECURSIVE SchemaOf(_)
SchemaOf(zodType) ==
  IF zodType.def.type = "string"
  THEN [type |-> "string"]
  ELSE [type |-> "object",
        properties |-> [k \in DOMAIN zodType.def.shape |->
                          SchemaOf(zodType.def.shape[k])],
        required |-> KeysOf(zodType.def.shape),
        additionalProperties |-> FALSE]

\* z.toJSONSchema: the JSON Schema document of a zod type.
toJSONSchema(zodType) == ("$schema" :> JsonSchemaDraft) @@ SchemaOf(zodType)

\* ------------------------------------------------------------- procedures
\* A procedure without .output() has no output property.
WithOutput(def, hasOutput) ==
  IF hasOutput THEN def @@ [output |-> ZString] ELSE def

\* _def.inputs holds one zod type per .input() call of the procedure builder.
AnyProcedure(type, inputs, hasOutput) ==
  [_def |-> WithOutput([procedure |-> TRUE, type |-> type, inputs |-> inputs],
                       hasOutput)]

\* Queries and mutations with and without an input and an output, a mutation
\* of two inputs, and a subscription that has both.
Procedures ==
  {AnyProcedure(t, i, o) :
     t \in {"query", "mutation"}, i \in {<<>>, <<ZObject>>}, o \in BOOLEAN}
  \cup {AnyProcedure("mutation", <<ZObject, ZString>>, FALSE),
        AnyProcedure("subscription", <<ZObject>>, TRUE)}

\* ---------------------------------------------------------- router records
EmptyObject == [k \in {} |-> k]

RouterRecordOf(entries) == [entries |-> entries]

IsRouterRecord(x) == "entries" \in DOMAIN x

EntryNames(rr) == {rr.entries[i][1] : i \in DOMAIN rr.entries}

\* The records of RouterRecords(n) that begin with the entry nm: v, where v is
\* a procedure or a record of rrs[k] and the remaining entries, none named
\* nm, come from rrs[n - 1 - k].
WithFirstEntry(rrs, n, k, nm) ==
  LET values == (IF k = 0 THEN Procedures ELSE {}) \cup rrs[k]
      rests == {r \in rrs[n - 1 - k] : nm \notin EntryNames(r)}
  IN {RouterRecordOf(<<<<nm, v>>>> \o rest.entries) : v \in values, rest \in rests}

RECURSIVE RouterRecordsUpTo(_)
RouterRecordsUpTo(n) ==
  IF n = 0 THEN <<{RouterRecordOf(<<>>)}>>
  ELSE LET rrs == RouterRecordsUpTo(n - 1)
           \* rrs[k + 1] holds the records of at most k entries
           at == [k \in 0..(n - 1) |-> rrs[k + 1]]
       IN Append(rrs,
                 {RouterRecordOf(<<>>)} \cup
                 UNION {WithFirstEntry(at, n, k, nm) : k \in 0..(n - 1), nm \in Names})

\* Every router record of at most n entries, nested ones counted, with
\* distinct names at each level (an object has one value per key).
RouterRecords(n) == RouterRecordsUpTo(n)[n + 1]

\* An AnyTRPCRouter: the record is read from router._def.procedures.
Routers == {[_def |-> [procedures |-> rr]] : rr \in RouterRecords(MaxNodes)}

\* ------------------------------------------------------ the translation
\* The method map with the two methods exchanged.
MethodMapExchanged == [query |-> "post", mutation |-> "get"]

\* The method map with subscriptions served over get.
MethodMapWithSubscription ==
  [query |-> "get", mutation |-> "post", subscription |-> "get"]

\* PROCEDURE_TYPE_HTTP_METHOD_MAP: subscription maps to undefined, which a
\* lookup cannot tell from a missing key, so it is outside the DOMAIN.
PROCEDURE_TYPE_HTTP_METHOD_MAP == [query |-> "get", mutation |-> "post"]

\* An assignment that merges the values of a property both objects have,
\* as a merge of path items method by method would.
ObjectAssignMerging(target, source) ==
  [k \in DOMAIN target \cup DOMAIN source |->
     IF k \in DOMAIN target /\ k \in DOMAIN source THEN source[k] @@ target[k]
     ELSE IF k \in DOMAIN source THEN source[k] ELSE target[k]]

\* An assignment that replaces the target by a source that has properties.
ObjectAssignReplacing(target, source) ==
  IF DOMAIN source = {} THEN target ELSE source

\* Object.assign(target, source): the source's properties overwrite the
\* target's.
ObjectAssign(target, source) == source @@ target

\* The input handling that sets an empty parameters list, or an empty
\* request body, on an operation without input.
WithInputOrEmpty(operation, def, method) ==
  IF Len(def.inputs) >= 1
  THEN LET content == "application/json" :> [schema |-> toJSONSchema(def.inputs[1])]
       IN IF method = "get"
          THEN operation @@
               [parameters |-> <<[name |-> "input", in |-> "query",
                                  content |-> content]>>]
          ELSE operation @@ [requestBody |-> [required |-> TRUE,
                                              content |-> content]]
  ELSE IF method = "get"
       THEN operation @@ [parameters |-> <<>>]
       ELSE operation @@ [requestBody |-> [required |-> FALSE,
                                           content |-> EmptyObject]]

\* The input handling that attaches the schema as a request body whatever
\* the method.
WithInputAsBody(operation, def, method) ==
  IF Len(def.inputs) >= 1
  THEN operation @@
       [requestBody |->
          [required |-> TRUE,
           content |-> "application/json" :>
                         [schema |-> toJSONSchema(def.inputs[1])]]]
  ELSE operation

\* The operation with its input schema attached (index.ts, "Handle input
\* schema"): inputs[0] alone is read.
WithInput(operation, def, method) ==
  IF Len(def.inputs) >= 1
  THEN LET jsonSchema == toJSONSchema(def.inputs[1])
           content == "application/json" :> [schema |-> jsonSchema]
       IN IF method = "get"
          THEN operation @@
               [parameters |-> <<[name |-> "input", in |-> "query",
                                  content |-> content]>>]
          ELSE operation @@ [requestBody |-> [required |-> TRUE,
                                              content |-> content]]
  ELSE operation

\* The output handling that leaves the envelope out.
WithResponsesBare(operation, def) ==
  IF "output" \in DOMAIN def
  THEN operation @@
       [responses |->
          "200" :> [description |-> "Successful response",
                    content |-> "application/json" :>
                                  [schema |-> toJSONSchema(def.output)]]]
  ELSE operation @@
       [responses |-> "200" :> [description |-> "Successful response"]]

\* The operation with its responses set (index.ts, "Handle output schema").
WithResponses(operation, def) ==
  IF "output" \in DOMAIN def
  THEN LET outputJsonSchema == toJSONSchema(def.output)
           responseSchema ==
             [type |-> "object",
              properties |->
                [result |-> [type |-> "object",
                             properties |-> [data |-> outputJsonSchema],
                             required |-> <<"data">>]],
              required |-> <<"result">>]
       IN operation @@
          [responses |->
             "200" :> [description |-> "Successful response",
                       content |-> "application/json" :>
                                     [schema |-> responseSchema]]]
  ELSE operation @@
       [responses |-> "200" :> [description |-> "Successful response"]]

\* The route joined as a path would be: an empty base adds no separator.
RouteOfJoined(basePath, procedureName) ==
  IF basePath = "" THEN procedureName ELSE basePath \o "/" \o procedureName

\* The route of a procedure: the template literal `${basePath}/${procedureName}`.
RouteOf(basePath, procedureName) == basePath \o "/" \o procedureName

\* The paths object of one procedure: empty for a subscription, else the one
\* route basePath/procedureName with the one method of the procedure's type.
getPathsForProcedure(basePath, procedureName, procedure) ==
  LET def == procedure._def
  IN IF def.type \notin DOMAIN PROCEDURE_TYPE_HTTP_METHOD_MAP
     THEN EmptyObject
     ELSE LET method == PROCEDURE_TYPE_HTTP_METHOD_MAP[def.type]
              operation ==
                WithResponses(
                  WithInput([operationId |-> procedureName], def, method), def)
          IN RouteOf(basePath, procedureName) :> (method :> operation)

\* isProcedure reads maybeProcedure._def.procedure. Its outcome is "true",
\* "false", or "TypeError" when _def is undefined: a nested record without
\* a key named _def. A record's _def is itself a procedure, which has no
\* property named procedure, or a record, whose properties are objects and
\* never the value true.
isProcedure(maybeProcedure) ==
  IF ~IsRouterRecord(maybeProcedure)
  THEN IF maybeProcedure._def.procedure = TRUE THEN "true" ELSE "false"
  ELSE IF "_def" \notin EntryNames(maybeProcedure)
       THEN "TypeError"
       ELSE "false"

\* The outcome of a function call: a returned value or a thrown error.
Returned(value) == [returned |-> value]

Thrown(error) == [thrown |-> error]

IsReturned(outcome) == "returned" \in DOMAIN outcome

\* getPathsForRouterRecord as the recursive function it is: the entries are
\* visited in Object.entries order and each one's paths assigned onto the
\* accumulator; an error thrown by isProcedure ends the whole call.
RECURSIVE getPathsForRouterRecord(_, _)
RECURSIVE VisitEntries(_, _, _, _)
VisitEntries(basePath, routerRecord, i, paths) ==
  IF i > Len(routerRecord.entries)
  THEN Returned(paths)
  ELSE LET procedureName == routerRecord.entries[i][1]
           procedureOrRouterRecord == routerRecord.entries[i][2]
           guard == isProcedure(procedureOrRouterRecord)
       IN IF guard = "TypeError"
          THEN Thrown("TypeError")
          ELSE IF guard = "true"
          THEN VisitEntries(basePath, routerRecord, i + 1,
                 ObjectAssign(paths,
                   getPathsForProcedure(basePath, procedureName,
                                        procedureOrRouterRecord)))
          ELSE LET nested == getPathsForRouterRecord(basePath,
                                                     procedureOrRouterRecord)
               IN IF IsReturned(nested)
                  THEN VisitEntries(basePath, routerRecord, i + 1,
                                    ObjectAssign(paths, nested.returned))
                  ELSE nested

getPathsForRouterRecord(basePath, routerRecord) ==
  VisitEntries(basePath, routerRecord, 1, EmptyObject)

\* The document with title and version exchanged and components left out.
DocumentInfoExchanged(apiTitle, apiVersion, paths) ==
  [openapi |-> "3.1.0",
   info |-> [title |-> apiVersion, version |-> apiTitle],
   paths |-> paths]

\* The document trpc2OpenApi assembles around the paths.
Document(apiTitle, apiVersion, paths) ==
  [openapi |-> "3.1.0",
   info |-> [title |-> apiTitle, version |-> apiVersion],
   paths |-> paths,
   components |-> EmptyObject]

\* ------------------------------------------------------------ the program
\* The callers of trpc2OpenApi; calls of one caller follow one another.
Callers == {"main"}

VARIABLES
  router,  \* the router object the host program declared; calls read it by reference
  call,    \* per caller: the arguments of its current or last call, beside router
  stack,   \* per caller: the activations of getPathsForRouterRecord, innermost last
  pc,      \* per caller: "idle", "walking", "returned" or "threw"
  result   \* per caller: the outcome of its last finished call

vars == <<router, call, stack, pc, result>>

None == [none |-> TRUE]

\* The router record reached from root by following the entry indices of at.
RECURSIVE RecordAt(_, _)
RecordAt(root, at) ==
  IF at = <<>> THEN root
  ELSE RecordAt(root.entries[Head(at)][2], Tail(at))

\* An activation whose accumulator is one object kept across calls: it
\* starts with the paths the last returned document was given.
NewFrameKeepingPaths(basePath, at) ==
  [basePath |-> basePath, at |-> at, i |-> 1,
   paths |-> IF \E c \in DOMAIN result : "returned" \in DOMAIN result[c]
             THEN result[CHOOSE c \in DOMAIN result :
                           "returned" \in DOMAIN result[c]].returned.paths
             ELSE EmptyObject]

\* An activation whose accumulator is one object shared by every call: it
\* starts with what an activation under way has accumulated.
NewFrameSharingPaths(basePath, at) ==
  [basePath |-> basePath, at |-> at, i |-> 1,
   paths |-> IF \E c \in DOMAIN stack : stack[c] # <<>>
             THEN stack[CHOOSE c \in DOMAIN stack : stack[c] # <<>>][1].paths
             ELSE EmptyObject]

\* A new activation of getPathsForRouterRecord on the record at `at`: its
\* accumulator starts as {} and its loop at the first entry.
NewFrame(basePath, at) ==
  [basePath |-> basePath, at |-> at, i |-> 1, paths |-> EmptyObject]

Top(c) == stack[c][Len(stack[c])]

RouterRecordOfFrame(f) == RecordAt(router._def.procedures, f.at)

\* The loop of the innermost activation is at an entry.
AtEntry(c) ==
  /\ pc[c] = "walking"
  /\ Top(c).i <= Len(RouterRecordOfFrame(Top(c)).entries)

\* The loop of the innermost activation is over.
AtEnd(c) ==
  /\ pc[c] = "walking"
  /\ Top(c).i > Len(RouterRecordOfFrame(Top(c)).entries)

CurrentEntry(c) == RouterRecordOfFrame(Top(c)).entries[Top(c).i]

ReplaceTop(stk, f) == [stk EXCEPT ![Len(stk)] = f]

Init ==
  /\ router \in Routers
  /\ call = [c \in Callers |-> None]
  /\ stack = [c \in Callers |-> <<>>]
  /\ pc = [c \in Callers |-> "idle"]
  /\ result = [c \in Callers |-> None]

\* trpc2OpenApi is called: the walk starts on router._def.procedures.
Trpc2OpenApi(c, apiTitle, apiVersion, basePath) ==
  /\ pc[c] # "walking"
  /\ call' = [call EXCEPT ![c] = [apiTitle |-> apiTitle,
                                  apiVersion |-> apiVersion,
                                  basePath |-> basePath]]
  /\ stack' = [stack EXCEPT ![c] = <<NewFrame(basePath, <<>>)>>]
  /\ pc' = [pc EXCEPT ![c] = "walking"]
  /\ UNCHANGED <<router, result>>

\* One loop iteration on a procedure: its paths are assigned onto paths.
VisitProcedure(c) ==
  /\ AtEntry(c)
  /\ isProcedure(CurrentEntry(c)[2]) = "true"
  /\ LET f == Top(c)
         translated == getPathsForProcedure(f.basePath, CurrentEntry(c)[1],
                                            CurrentEntry(c)[2])
     IN stack' = [stack EXCEPT ![c] =
                    ReplaceTop(@, [f EXCEPT !.paths = ObjectAssign(@, translated),
                                            !.i = @ + 1])]
  /\ UNCHANGED <<router, call, pc, result>>

\* One loop iteration on a nested record: the recursive call, with the same
\* basePath.
EnterRouterRecord(c) ==
  /\ AtEntry(c)
  /\ isProcedure(CurrentEntry(c)[2]) = "false"
  /\ stack' = [stack EXCEPT ![c] =
                 Append(@, NewFrame(Top(c).basePath,
                                    Append(Top(c).at, Top(c).i)))]
  /\ UNCHANGED <<router, call, pc, result>>

\* isProcedure throws on the entry: the error unwinds every activation and
\* leaves trpc2OpenApi.
IsProcedureThrows(c) ==
  /\ AtEntry(c)
  /\ isProcedure(CurrentEntry(c)[2]) = "TypeError"
  /\ stack' = [stack EXCEPT ![c] = <<>>]
  /\ pc' = [pc EXCEPT ![c] = "threw"]
  /\ result' = [result EXCEPT ![c] = Thrown("TypeError")]
  /\ UNCHANGED <<router, call>>

\* A recursive call returns: its paths are assigned onto the caller's and
\* the caller's loop moves on.
ReturnNested(c) ==
  /\ AtEnd(c)
  /\ Len(stack[c]) > 1
  /\ LET f == Top(c)
         parent == stack[c][Len(stack[c]) - 1]
         rest == SubSeq(stack[c], 1, Len(stack[c]) - 1)
     IN stack' = [stack EXCEPT ![c] =
                    ReplaceTop(rest,
                               [parent EXCEPT !.paths = ObjectAssign(@, f.paths),
                                              !.i = @ + 1])]
  /\ UNCHANGED <<router, call, pc, result>>

\* The outermost call returns and trpc2OpenApi returns the document.
ReturnDocument(c) ==
  /\ AtEnd(c)
  /\ Len(stack[c]) = 1
  /\ result' = [result EXCEPT ![c] =
                  Returned(Document(call[c].apiTitle, call[c].apiVersion,
                                    Top(c).paths))]
  /\ pc' = [pc EXCEPT ![c] = "returned"]
  /\ stack' = [stack EXCEPT ![c] = <<>>]
  /\ UNCHANGED <<router, call>>

Next ==
  \E c \in Callers :
    \/ \E apiTitle \in ApiTitles, apiVersion \in ApiVersions, basePath \in BasePaths :
         Trpc2OpenApi(c, apiTitle, apiVersion, basePath)
    \/ VisitProcedure(c)
    \/ EnterRouterRecord(c)
    \/ IsProcedureThrows(c)
    \/ ReturnNested(c)
    \/ ReturnDocument(c)

Spec == Init /\ [][Next]_vars

\* ------------------------------------------------- what the claims speak of
\* The procedures anywhere in a router record, as <<name, procedure>> pairs
\* in depth-first insertion order.
RECURSIVE Leaves(_)
RECURSIVE LeavesFrom(_, _)
LeavesFrom(rr, i) ==
  IF i > Len(rr.entries) THEN <<>>
  ELSE (IF IsRouterRecord(rr.entries[i][2])
        THEN Leaves(rr.entries[i][2])
        ELSE <<rr.entries[i]>>) \o LeavesFrom(rr, i + 1)

Leaves(rr) == LeavesFrom(rr, 1)

Tree == router._def.procedures

KindOf(leaf) == leaf[2]._def.type

IsStream(leaf) == KindOf(leaf) = "subscription"

\* The positions of the procedures of Tree whose path item is in the
\* document: the last procedure of a name among those that are no streams.
EmittedAt ==
  LET ls == Leaves(Tree)
  IN {i \in DOMAIN ls :
        /\ ~IsStream(ls[i])
        /\ \A j \in DOMAIN ls :
             (j > i /\ ls[j][1] = ls[i][1]) => IsStream(ls[j])}

HasReturned(c) == pc[c] = "returned"

PathsOf(c) == result[c].returned.paths

RouteAt(c, i) == call[c].basePath \o "/" \o Leaves(Tree)[i][1]

PathItemAt(c, i) == PathsOf(c)[RouteAt(c, i)]

\* The operation the document holds for the emitted procedure at position i.
OperationAt(c, i) ==
  PathItemAt(c, i)[CHOOSE m \in DOMAIN PathItemAt(c, i) : TRUE]

DefAt(i) == Leaves(Tree)[i][2]._def

\* C1: in a returned document, the path item of every emitted query carries
\* the method get and no other, that of every emitted mutation the method
\* post and no other.
C1_MethodOfKind ==
  \A c \in Callers :
    HasReturned(c) =>
      \A i \in EmittedAt :
        /\ RouteAt(c, i) \in DOMAIN PathsOf(c)
        /\ KindOf(Leaves(Tree)[i]) = "query" => DOMAIN PathItemAt(c, i) = {"get"}
        /\ KindOf(Leaves(Tree)[i]) = "mutation" => DOMAIN PathItemAt(c, i) = {"post"}

\* A document that holds an emitted query and an emitted mutation.
C1_Witness ==
  \E c \in Callers :
    /\ HasReturned(c)
    /\ \E i, j \in EmittedAt :
         /\ KindOf(Leaves(Tree)[i]) = "query"
         /\ KindOf(Leaves(Tree)[j]) = "mutation"

NameAt(i) == Leaves(Tree)[i][1]

StreamAt == {i \in DOMAIN Leaves(Tree) : IsStream(Leaves(Tree)[i])}

NonStreamNames == {NameAt(i) : i \in DOMAIN Leaves(Tree) \ StreamAt}

\* C2 as stated: in a returned document the route of every stream procedure
\* of the tree is absent from paths.
C2_StreamRouteAbsent ==
  \A c \in Callers :
    HasReturned(c) =>
      \A i \in StreamAt : RouteAt(c, i) \notin DOMAIN PathsOf(c)

\* C2, amended: the translator returns the empty paths object for every
\* stream procedure, and in a returned document the route of a stream
\* procedure is absent from paths unless a procedure of the same name that is
\* no stream occurs in the tree.
C2_StreamContributesNothing ==
  \A c \in Callers :
    HasReturned(c) =>
      \A i \in StreamAt :
        /\ getPathsForProcedure(call[c].basePath, NameAt(i), Leaves(Tree)[i][2])
             = EmptyObject
        /\ RouteAt(c, i) \in DOMAIN PathsOf(c) <=> NameAt(i) \in NonStreamNames

\* A document with a route, returned for a tree that holds a stream procedure
\* whose own route is absent.
C2_Witness ==
  \E c \in Callers :
    /\ HasReturned(c)
    /\ PathsOf(c) # EmptyObject
    /\ \E i \in StreamAt : RouteAt(c, i) \notin DOMAIN PathsOf(c)

\* C3: the route keys of a returned document are exactly the concatenations
\* basePath + "/" + name of the procedures that are no streams: "" and test
\* give /test, api and test give api/test.
C3_RouteIsConcatenation ==
  \A c \in Callers :
    HasReturned(c) =>
      /\ DOMAIN PathsOf(c) = {call[c].basePath \o "/" \o n : n \in NonStreamNames}
      /\ (call[c].basePath = "" /\ "test" \in NonStreamNames)
           => "/test" \in DOMAIN PathsOf(c)
      /\ (call[c].basePath = "api" /\ "test" \in NonStreamNames)
           => "api/test" \in DOMAIN PathsOf(c)
      /\ (call[c].basePath = "/trpc" /\ "test" \in NonStreamNames)
           => "/trpc/test" \in DOMAIN PathsOf(c)

\* A document returned for the empty base path with the route /test.
C3_Witness ==
  \E c \in Callers :
    /\ HasReturned(c)
    /\ call[c].basePath = ""
    /\ "/test" \in DOMAIN PathsOf(c)

\* C4: an emitted operation whose procedure declares no input has neither
\* parameters nor requestBody, and with no output either it is exactly its
\* operationId and a 200 response of a description alone.
C4_NoInputNoParameters ==
  \A c \in Callers :
    HasReturned(c) =>
      \A i \in EmittedAt :
        DefAt(i).inputs = <<>> =>
          /\ "parameters" \notin DOMAIN OperationAt(c, i)
          /\ "requestBody" \notin DOMAIN OperationAt(c, i)
          /\ "output" \notin DOMAIN DefAt(i) =>
               OperationAt(c, i) =
                 [operationId |-> NameAt(i),
                  responses |-> "200" :> [description |-> "Successful response"]]

\* A document with a get and a post operation of procedures without input
\* and output.
C4_Witness ==
  \E c \in Callers :
    /\ HasReturned(c)
    /\ \E i, j \in EmittedAt :
         /\ DefAt(i).inputs = <<>> /\ "output" \notin DOMAIN DefAt(i)
         /\ DefAt(j).inputs = <<>> /\ "output" \notin DOMAIN DefAt(j)
         /\ KindOf(Leaves(Tree)[i]) = "query"
         /\ KindOf(Leaves(Tree)[j]) = "mutation"

\* The media type object the input of the procedure at position i is
\* attached as: the conversion of the first declared input.
InputContentAt(i) ==
  "application/json" :> [schema |-> toJSONSchema(DefAt(i).inputs[1])]

\* C5: an emitted operation whose procedure declares an input carries the
\* converted schema in one place: a get operation as the one parameter named
\* input in the query, with no requestBody; a post operation as the required
\* requestBody, with no parameters.
C5_InputPlacedByMethod ==
  \A c \in Callers :
    HasReturned(c) =>
      \A i \in EmittedAt :
        DefAt(i).inputs # <<>> =>
          /\ DOMAIN PathItemAt(c, i) = {"get"} =>
               /\ "parameters" \in DOMAIN OperationAt(c, i)
               /\ OperationAt(c, i).parameters =
                    <<[name |-> "input", in |-> "query",
                       content |-> InputContentAt(i)]>>
               /\ "requestBody" \notin DOMAIN OperationAt(c, i)
          /\ DOMAIN PathItemAt(c, i) = {"post"} =>
               /\ "requestBody" \in DOMAIN OperationAt(c, i)
               /\ OperationAt(c, i).requestBody =
                    [required |-> TRUE, content |-> InputContentAt(i)]
               /\ "parameters" \notin DOMAIN OperationAt(c, i)
          /\ DOMAIN PathItemAt(c, i) \in {{"get"}, {"post"}}

\* A document with a get and a post operation of procedures with an input.
C5_Witness ==
  \E c \in Callers :
    /\ HasReturned(c)
    /\ \E i, j \in EmittedAt :
         /\ DefAt(i).inputs # <<>> /\ DefAt(j).inputs # <<>>
         /\ "parameters" \in DOMAIN OperationAt(c, i)
         /\ "requestBody" \in DOMAIN OperationAt(c, j)

\* The envelope { result: { data: <schema> } } as a JSON schema.
EnvelopeOf(schema) ==
  [type |-> "object",
   required |-> <<"result">>,
   properties |->
     [result |-> [type |-> "object",
                  required |-> <<"data">>,
                  properties |-> [data |-> schema]]]]

\* C6: every emitted operation has responses of the one status 200, described
\* as "Successful response"; its application/json schema is the envelope
\* around the converted output when the procedure declares one, and it has
\* no content when it declares none.
C6_ResponseEnvelope ==
  \A c \in Callers :
    HasReturned(c) =>
      \A i \in EmittedAt :
        LET responses == OperationAt(c, i).responses
        IN /\ DOMAIN responses = {"200"}
           /\ responses["200"].description = "Successful response"
           /\ "output" \in DOMAIN DefAt(i) =>
                /\ DOMAIN responses["200"] = {"description", "content"}
                /\ responses["200"].content =
                     "application/json" :>
                       [schema |-> EnvelopeOf(toJSONSchema(DefAt(i).output))]
           /\ "output" \notin DOMAIN DefAt(i) =>
                DOMAIN responses["200"] = {"description"}

\* A document with an operation of a procedure with an output and one of a
\* procedure without.
C6_Witness ==
  \E c \in Callers :
    /\ HasReturned(c)
    /\ \E i, j \in EmittedAt :
         /\ "output" \in DOMAIN DefAt(i)
         /\ "content" \in DOMAIN OperationAt(c, i).responses["200"]
         /\ "output" \notin DOMAIN DefAt(j)

HasFinished(c) == pc[c] \in {"returned", "threw"}

\* The one-level record that declares the procedures of rr under their own
\* names, in depth-first insertion order: a name declared again keeps its
\* place and takes the later procedure.
OneLevel(rr) ==
  LET ls == Leaves(rr)
      firsts == {i \in DOMAIN ls : \A j \in DOMAIN ls : j < i => ls[j][1] # ls[i][1]}
      last(n) == CHOOSE i \in DOMAIN ls :
                   /\ ls[i][1] = n
                   /\ \A j \in DOMAIN ls : j > i => ls[j][1] # n
      RECURSIVE from(_)
      from(i) == IF i > Len(ls) THEN <<>>
                 ELSE (IF i \in firsts
                       THEN <<<<ls[i][1], ls[last(ls[i][1])][2]>>>>
                       ELSE <<>>) \o from(i + 1)
  IN RouterRecordOf(from(1))

\* The one-level tree exists when no two procedures of the tree share a name.
DistinctLeafNames ==
  \A i, j \in DOMAIN Leaves(Tree) : i # j => NameAt(i) # NameAt(j)

\* C7: for a tree of any depth, the walk returns the route map it returns for
\* the one-level tree of the same procedures.
C7_DepthDoesNotMatter ==
  \A c \in Callers :
    (HasFinished(c) /\ DistinctLeafNames) =>
      /\ HasReturned(c)
      /\ Returned(PathsOf(c)) =
           getPathsForRouterRecord(call[c].basePath, OneLevel(Tree))

\* What is left of C7 on the calls that return.
C7_ReturnedEqualsOneLevel ==
  \A c \in Callers :
    (HasReturned(c) /\ DistinctLeafNames) =>
      Returned(PathsOf(c)) =
        getPathsForRouterRecord(call[c].basePath, OneLevel(Tree))

\* C8: a returned document has the keys openapi, info, paths and components
\* and no other, with openapi 3.1.0, the title and version of the call and
\* empty components; the paths of the empty tree are empty.
C8_DocumentShape ==
  \A c \in Callers :
    HasReturned(c) =>
      LET doc == result[c].returned
      IN /\ DOMAIN doc = {"openapi", "info", "paths", "components"}
         /\ doc.openapi = "3.1.0"
         /\ doc.info = [title |-> call[c].apiTitle, version |-> call[c].apiVersion]
         /\ DOMAIN doc.components = {}
         /\ Tree.entries = <<>> => DOMAIN doc.paths = {}

\* A document returned for the empty tree.
C8_Witness ==
  \E c \in Callers :
    /\ HasReturned(c)
    /\ Tree.entries = <<>>
    /\ result[c].returned.info.title = "Test API"

\* The orders of n entries.
Orders(n) == {p \in [1..n -> 1..n] : {p[i] : i \in 1..n} = 1..n}

\* The records that are rr with the entries reordered at any level.
RECURSIVE Reorderings(_)
RECURSIVE ReorderedValues(_, _)
ReorderedValues(rr, i) ==
  IF i > Len(rr.entries) THEN {<<>>}
  ELSE LET v == rr.entries[i][2]
           vs == IF IsRouterRecord(v) THEN Reorderings(v) ELSE {v}
       IN {<<<<rr.entries[i][1], w>>>> \o rest :
             w \in vs, rest \in ReorderedValues(rr, i + 1)}

Reorderings(rr) ==
  {RouterRecordOf([i \in DOMAIN es |-> es[p[i]]]) :
     es \in ReorderedValues(rr, 1), p \in Orders(Len(rr.entries))}

NoSharedName ==
  \A i, j \in DOMAIN Leaves(Tree) \ StreamAt : i # j => NameAt(i) # NameAt(j)

\* C9: for a tree in which no two procedures that are no streams share a
\* name, the walk of every reordering of the entries, at any level, ends as
\* the walk of the tree does: with the same route map, or with the error.
C9_OrderIndependent ==
  \A c \in Callers :
    (HasFinished(c) /\ NoSharedName) =>
      \A reordered \in Reorderings(Tree) :
        getPathsForRouterRecord(call[c].basePath, reordered) =
          IF HasReturned(c) THEN Returned(PathsOf(c)) ELSE result[c]

\* A document of two routes, returned for a nested tree that has another
\* order.
C9_Witness ==
  \E c \in Callers :
    /\ HasReturned(c)
    /\ NoSharedName
    /\ Cardinality(DOMAIN PathsOf(c)) = 2
    /\ Cardinality(Reorderings(Tree)) > 1
    /\ \E i \in DOMAIN Tree.entries : IsRouterRecord(Tree.entries[i][2])

\* What trpc2OpenApi is as a function of its four arguments.
OutcomeOf(apiTitle, apiVersion, basePath, r) ==
  LET walked == getPathsForRouterRecord(basePath, r._def.procedures)
  IN IF IsReturned(walked)
     THEN Returned(Document(apiTitle, apiVersion, walked.returned))
     ELSE walked

\* C10: no step of any call changes the router, and every call of a sequence
\* of calls ends as the function of its four arguments does, whatever the
\* calls before it were.
C10_Pure ==
  /\ [][router' = router]_vars
  /\ [](\A c \in Callers :
          HasFinished(c) =>
            result[c] = OutcomeOf(call[c].apiTitle, call[c].apiVersion,
                                  call[c].basePath, router))

\* A second call under way that has translated a procedure, while the
\* document of the call before it, on another base path, is still held.
C10_Witness ==
  \E c \in Callers :
    /\ pc[c] = "walking"
    /\ IsReturned(result[c])
    /\ DOMAIN result[c].returned.paths # {}
    /\ DOMAIN Top(c).paths # {}
    /\ DOMAIN Top(c).paths \cap DOMAIN result[c].returned.paths = {}

\* The names that two or more procedures of the tree that are no streams
\* share.
SharedNames ==
  {n \in NonStreamNames :
     Cardinality({i \in DOMAIN Leaves(Tree) \ StreamAt : NameAt(i) = n}) >= 2}

\* The position of the last procedure named n that is no stream.
LastAt(n) ==
  CHOOSE i \in DOMAIN Leaves(Tree) \ StreamAt :
    /\ NameAt(i) = n
    /\ \A j \in DOMAIN Leaves(Tree) \ StreamAt : NameAt(j) = n => j <= i

MethodOfKind(kind) == IF kind = "query" THEN "get" ELSE "post"

\* The path item at the route of the shared name n is that of the last
\* procedure of the name, whole: its one method, and under it the operation
\* translated from that procedure alone.
LastWinsAt(c, n) ==
  LET route == call[c].basePath \o "/" \o n
      last == Leaves(Tree)[LastAt(n)]
  IN /\ route \in DOMAIN PathsOf(c)
     /\ DOMAIN PathsOf(c)[route] = {MethodOfKind(KindOf(last))}
     /\ PathsOf(c)[route] =
          getPathsForProcedure(call[c].basePath, n, last[2])[route]

\* C12: when procedures that are no streams share a name, the call returns a
\* document whose path item at their route is the one of the last of them in
\* depth-first insertion order, the earlier ones' methods and operations gone.
C12_LastWins ==
  \A c \in Callers :
    (HasFinished(c) /\ SharedNames # {}) =>
      /\ HasReturned(c)
      /\ \A n \in SharedNames : LastWinsAt(c, n)

\* What is left of C12 on the calls that return.
C12_LastWinsWhenReturned ==
  \A c \in Callers :
    HasReturned(c) => \A n \in SharedNames : LastWinsAt(c, n)

\* A returned document in which a mutation replaced a query of its name.
C12_ReturnedWitness ==
  \E c \in Callers :
    /\ HasReturned(c)
    /\ \E n \in SharedNames :
         /\ DOMAIN PathsOf(c)[call[c].basePath \o "/" \o n] = {"post"}
         /\ \E i \in DOMAIN Leaves(Tree) :
              NameAt(i) = n /\ KindOf(Leaves(Tree)[i]) = "query"

\* The operation of a path item that has one method.
OperationOf(pathItem) == pathItem[CHOOSE m \in DOMAIN pathItem : TRUE]

\* C13: in a returned document every path item has one method, get or post;
\* its route is the base path, "/" and its operationId, so that no two
\* operations share an operationId; and there are as many routes as distinct
\* names among the procedures of the tree that are no streams.
C13_OneOperationPerName ==
  \A c \in Callers :
    HasReturned(c) =>
      /\ \A route \in DOMAIN PathsOf(c) :
           /\ Cardinality(DOMAIN PathsOf(c)[route]) = 1
           /\ DOMAIN PathsOf(c)[route] \subseteq {"get", "post"}
           /\ route = call[c].basePath \o "/" \o
                        OperationOf(PathsOf(c)[route]).operationId
      /\ \A r1, r2 \in DOMAIN PathsOf(c) :
           r1 # r2 => OperationOf(PathsOf(c)[r1]).operationId
                        # OperationOf(PathsOf(c)[r2]).operationId
      /\ Cardinality(DOMAIN PathsOf(c)) = Cardinality(NonStreamNames)

\* A returned document of two routes, one with get and one with post, for a
\* tree of two procedures that are no streams.
C13_Witness ==
  \E c \in Callers :
    /\ HasReturned(c)
    /\ Cardinality(DOMAIN PathsOf(c)) = 2
    /\ Cardinality(DOMAIN Leaves(Tree) \ StreamAt) = 2
    /\ \E r1, r2 \in DOMAIN PathsOf(c) :
         DOMAIN PathsOf(c)[r1] = {"get"} /\ DOMAIN PathsOf(c)[r2] = {"post"}

\* ------------------------------------------------- calls at the same time
\* Two callers whose calls run at the same time, their steps interleaved.
ConcurrentCallers == {"main", "other"}

\* The index paths of rr itself and of the records nested in it.
RECURSIVE Roots(_)
Roots(rr) ==
  {<<>>} \cup
  UNION {{<<i>> \o at : at \in Roots(rr.entries[i][2])} :
           i \in {j \in DOMAIN rr.entries : IsRouterRecord(rr.entries[j][2])}}

\* The router a call walks: the one whose procedures are the record at root
\* of the host's router, which is the host's router itself for the root <<>>.
RouterAt(root) == [_def |-> [procedures |-> RecordAt(router._def.procedures, root)]]

\* The title each of the two callers gives its document.
ApiTitleOf(c) == IF c = "main" THEN "Test API" ELSE "My API"

InitConcurrent ==
  /\ router \in {[_def |-> [procedures |-> rr]] : rr \in RouterRecords(MaxSharedNodes)}
  /\ call = [c \in ConcurrentCallers |-> None]
  /\ stack = [c \in ConcurrentCallers |-> <<>>]
  /\ pc = [c \in ConcurrentCallers |-> "idle"]
  /\ result = [c \in ConcurrentCallers |-> None]

\* trpc2OpenApi is called, by a caller that has made no call yet, on the
\* router at root, while calls of other callers may be under way.
Trpc2OpenApiOn(c, apiTitle, apiVersion, basePath, root) ==
  /\ pc[c] = "idle"
  /\ call' = [call EXCEPT ![c] = [apiTitle |-> apiTitle,
                                  apiVersion |-> apiVersion,
                                  basePath |-> basePath,
                                  root |-> root]]
  /\ stack' = [stack EXCEPT ![c] = <<NewFrame(basePath, root)>>]
  /\ pc' = [pc EXCEPT ![c] = "walking"]
  /\ UNCHANGED <<router, result>>

NextConcurrent ==
  \E c \in ConcurrentCallers :
    \/ \E apiVersion \in ApiVersions, basePath \in BasePaths,
          root \in Roots(router._def.procedures) :
         Trpc2OpenApiOn(c, ApiTitleOf(c), apiVersion, basePath, root)
    \/ VisitProcedure(c)
    \/ EnterRouterRecord(c)
    \/ IsProcedureThrows(c)
    \/ ReturnNested(c)
    \/ ReturnDocument(c)

SpecConcurrent == InitConcurrent /\ [][NextConcurrent]_vars

\* C11: calls whose steps interleave, on the same router or on different
\* ones, each end as the call does when run alone: with the document, or the
\* error, that is the function of its own four arguments.
C11_CallsIndependent ==
  \A c \in ConcurrentCallers :
    HasFinished(c) =>
      result[c] = OutcomeOf(call[c].apiTitle, call[c].apiVersion,
                            call[c].basePath, RouterAt(call[c].root))

\* Two calls under way at once, each with routes in its accumulator that
\* the other's has not, the earlier of them about to return.
C11_Witness ==
  /\ \A c \in ConcurrentCallers : pc[c] = "walking"
  /\ DOMAIN Top("main").paths # {}
  /\ DOMAIN Top("other").paths # {}
  /\ DOMAIN Top("main").paths \cap DOMAIN Top("other").paths = {}
  /\ AtEnd("main") /\ Len(stack["main"]) = 1
====
